---------------------------- MODULE Spec2Model ----------------------------
(***************************************************************************)
(* A model of the two accessibility tools of the repository:              *)
(*   make_accessible.py      (the .shn dialect, called "py" below)        *)
(*   make_accessible_tex.py  (the plain .tex dialect, called "tex" below) *)
(*                                                                         *)
(* A text is a sequence of tokens.  A token is a string that every        *)
(* regular expression of the programs treats as a unit: a command name    *)
(* ("\\includegraphics"), one brace or bracket, one path separator, one   *)
(* piece of a file name, one blank, one line break.  The regular          *)
(* expressions are evaluated token by token exactly as Python's re module *)
(* evaluates them character by character (leftmost match, greedy [^x]     *)
(* classes, non-overlapping finditer/sub).                                 *)
(***************************************************************************)
EXTENDS Integers, Sequences, FiniteSets, TLC

VARIABLES
    prog,       \* which script runs: "py" (make_accessible.py) or "tex"
    src,        \* the content of the document source file
    prev,       \* the content the latest pass read
    passes,     \* number of passes run over src so far
    alt_map,    \* the map the latest extract_alt_map returned
    raised,     \* the exception the latest pass raised, or "none"
    pc,         \* where the run stands
    doc,        \* the stem of the document's file name
    new_text,   \* apply_pdf_accessibility: the text computed, not yet written
    bak,        \* the content of the backup file, <<"absent">> when there is none
    make_backup, \* apply_pdf_accessibility's flag (not --no-backup)
    on_path,    \* generate_html: the external programs shutil.which finds
    tex_file,   \* generate_html: the content of the .tex file it reads, or absent
    tmp_file,   \* generate_html: the content of the file handed to pandoc, or absent
    html_file,  \* generate_html: the content of the .html file, or absent
    status,     \* generate_html: the exit status of each external program run
    rendered,   \* generate_html: what pandoc wrote, before post-processing
    alt_arg,    \* guess_alt: the file name it is called with
    alt_guess,  \* guess_alt: what it returned, <<>> before the call
    files,      \* main: the documents named on the command line, in order
    file_idx,   \* main: the position of the for loop in files
    steps,      \* main: the steps that ran to their end, as <<position, step>>
    do_pdf,     \* main: --pdf / --shn or --all was given
    do_html     \* main: --html or --all was given

htmlvars == <<on_path, tex_file, tmp_file, html_file, status, rendered>>

guessvars == <<alt_arg, alt_guess>>

mainvars == <<files, file_idx, steps, do_pdf, do_html>>

vars == <<prog, src, prev, passes, alt_map, raised, pc, doc, new_text, bak, make_backup,
          on_path, tex_file, tmp_file, html_file, status, rendered,
          alt_arg, alt_guess, files, file_idx, steps, do_pdf, do_html>>

Absent == <<"absent">>

\* no external program has run: status holds <<>> for a program not run yet
\* and <<returncode>> for one that has exited
NotRun == [coursetex |-> <<>>, pandoc |-> <<>>]

\* guess_alt has no call in progress
NoGuess == alt_arg = <<>> /\ alt_guess = <<>>

\* main's loop is not running
NoBatch ==
    files = <<>> /\ file_idx = 0 /\ steps = {} /\ do_pdf = FALSE /\ do_html = FALSE

Progs == {"py", "tex"}

\* ------------------------------------------------------------------ tokens
TT == "\\pdftooltip"
IG == "\\includegraphics"
LB == "{"
RB == "}"
LSQ == "["
RSQ == "]"
SLASH == "/"
SP == " "
NL == "\n"

\* ------------------------------------------------------- sequence helpers
Min(S) == CHOOSE x \in S : \A y \in S : x <= y
Max(S) == CHOOSE x \in S : \A y \in S : x >= y

\* least index >= from holding tok, or 0 (str.find / the end of a [^x] run)
FirstIdx(s, tok, from) ==
    LET cands == {i \in from..Len(s) : s[i] = tok}
    IN  IF cands = {} THEN 0 ELSE Min(cands)

\* greatest index <= upto holding tok, or 0
LastIdx(s, tok, upto) ==
    LET cands == {i \in 1..upto : i <= Len(s) /\ s[i] = tok}
    IN  IF cands = {} THEN 0 ELSE Max(cands)

RECURSIVE Concat(_)
Concat(ss) == IF ss = <<>> THEN <<>> ELSE Head(ss) \o Concat(Tail(ss))

\* str.strip(): blanks and line breaks removed at both ends
IsSpace(tok) == tok \in {SP, NL}
RECURSIVE LStrip(_)
LStrip(s) == IF s # <<>> /\ IsSpace(Head(s)) THEN LStrip(Tail(s)) ELSE s
RECURSIVE RStrip(_)
RStrip(s) ==
    IF s # <<>> /\ IsSpace(s[Len(s)]) THEN RStrip(SubSeq(s, 1, Len(s) - 1)) ELSE s
Strip(s) == RStrip(LStrip(s))

\* --------------------------------------------------------------- file names
\* A file name is a sequence of tokens: directory names, "/", and the pieces
\* of the base name ("fig", "_", "12345", ".png").

\* str.lower() on one token: the mixed-case pieces of the alphabet
Lower(tok) ==
    CASE tok = "TrayStack" -> "traystack"
      [] tok = "Fig"       -> "fig"
      [] OTHER             -> tok

LowerAll(s) == [i \in 1..Len(s) |-> Lower(s[i])]

\* str.split('/')
RECURSIVE Split(_)
Split(s) ==
    LET i == FirstIdx(s, SLASH, 1)
    IN  IF i = 0 THEN <<s>>
        ELSE <<SubSeq(s, 1, i - 1)>> \o Split(SubSeq(s, i + 1, Len(s)))

\* pathlib: Path(f).name, the last non-empty component
RECURSIVE DropTrailingSlash(_)
DropTrailingSlash(s) ==
    IF s # <<>> /\ s[Len(s)] = SLASH
    THEN DropTrailingSlash(SubSeq(s, 1, Len(s) - 1)) ELSE s

PathName(f) ==
    LET g == DropTrailingSlash(f)
    IN  SubSeq(g, LastIdx(g, SLASH, Len(g)) + 1, Len(g))

\* a suffix piece such as ".png"
IsSuffix(tok) == tok \in {".png", ".pdf", ".eps"}

\* pathlib: Path(f).stem, the name without its last suffix
PathStem(f) ==
    LET n == PathName(f)
    IN  IF Len(n) >= 2 /\ IsSuffix(n[Len(n)]) THEN SubSeq(n, 1, Len(n) - 1) ELSE n

\* a run of 4 or more digits (\d{4,}); digit pieces are maximal runs
IsLongDigits(tok) == tok \in {"12345", "2024"}

ALT_MARKER_py == "***!!***Guess by make_accessible.py:"
ALT_MARKER_tex == "***!!***Guess by make_accessible_tex.py:"

\* the curated table of make_accessible_tex.py: <<description>> or <<>>
known_tex(name) ==
    CASE name = <<"traystack">> ->
            <<"Photo of a spring-loaded cafeteria tray stack, analogy for the stack data structure">>
      [] name = <<"pathfinder">> -> <<"NASA Mars Pathfinder rover">>
      [] name = <<"rs232", "_", "serialbits">> ->
            <<"RS-232 serial bit frame timing diagram">>
      [] name = <<"rs232", "_", "db25pinout">> ->
            <<"DB-25 connector pinout for RS-232">>
      [] OTHER -> <<>>

RECURSIVE Readable(_)
Readable(s) ==
    IF s = <<>> THEN <<>>
    ELSE LET t == Head(s)
         IN  (IF IsLongDigits(t) THEN <<>>
              ELSE IF t \in {"-", "_"} THEN <<SP>> ELSE <<t>>) \o Readable(Tail(s))

guess_alt_tex(filename) ==
    LET name == LowerAll(PathStem(filename))
        readable == Strip(Readable(name))
    IN  IF known_tex(name) # <<>> THEN known_tex(name)
        ELSE IF readable # <<>> THEN <<"Figure: ">> \o readable
        ELSE <<"Figure (">> \o PathName(filename) \o <<")">>

\* the curated table of make_accessible.py
known_py(name) ==
    CASE name = <<"redditfollowadviceuw">> ->
            <<"Screenshot of a Reddit post advising UW students to follow course advice">>
      [] name = <<"traystack">> ->
            <<"Photo of a spring-loaded cafeteria tray stack, analogy for the hardware stack data structure">>
      [] name = <<"pathfinder">> ->
            <<"Photo of the NASA Mars Pathfinder rover, illustrating the priority inversion bug in the 1997 Mars mission">>
      [] name = <<"rs232", "_", "serialbits">> ->
            <<"Timing diagram of an RS-232 serial bit frame showing start bit, data bits, parity, and stop bits">>
      [] name = <<"rs232", "_", "db25pinout">> ->
            <<"DB-25 connector pinout diagram for RS-232 serial interface">>
      [] name = <<"includes", "_", "multi", "_", "protos">> ->
            <<"Diagram showing a single .h header providing function prototypes to multiple .c source files">>
      [] name = <<"c", "-", "building">> ->
            <<"Flowchart of the C build process: preprocessor, compiler, linker">>
      [] OTHER -> <<>>

folder_guesses(folder) ==
    CASE folder = <<"hwio_figs">>   -> "Hardware I/O diagram"
      [] folder = <<"usb_figs">>    -> "USB architecture diagram"
      [] folder = <<"sched_figs">>  -> "Scheduler diagram"
      [] folder = <<"intro_figs">>  -> "Introduction diagram"
      [] folder = <<"cprog_figs">>  -> "C programming diagram"
      [] folder = <<"misc_figs">>   -> "Diagram"
      [] folder = <<"Serial_figs">> -> "Serial communication diagram"
      [] OTHER -> "Diagram"

\* filename.replace('\\', '/')
BackslashToSlash(s) == [i \in 1..Len(s) |-> IF s[i] = "\\" THEN SLASH ELSE s[i]]

guess_alt_py(filename) ==
    LET name == LowerAll(PathStem(filename))
        parts == Split(BackslashToSlash(filename))
    IN  IF known_py(name) # <<>> THEN known_py(name)
        ELSE IF Len(parts) >= 2
             THEN <<folder_guesses(parts[Len(parts) - 1]), " (">>
                  \o PathName(filename) \o <<")">>
        ELSE <<"Figure (">> \o PathName(filename) \o <<")">>

\* ------------------------------------------------------------- directives
\* cmd(\[[^\]]*\])?\{([^}]+)\} tried at position p: a command, an optional
\* bracket group, one brace group.  last is the index of the closing brace.
NoMatch(p) == [ok |-> FALSE, start |-> p, last |-> 0, opts |-> <<>>, fname |-> <<>>]

\* where the brace group has to open: after the command, or after its bracket
\* group ([^\]]* ends at the first "]"); 0 when the bracket group never closes
ArgOpen(s, p) ==
    IF p + 1 <= Len(s) /\ s[p + 1] = LSQ
    THEN (IF FirstIdx(s, RSQ, p + 2) = 0 THEN 0 ELSE FirstIdx(s, RSQ, p + 2) + 1)
    ELSE p + 1

\* where the brace group opened at ob closes ([^}]+ ends at the first "}"), or 0
ArgClose(s, ob) ==
    IF ob = 0 \/ ob > Len(s) THEN 0
    ELSE IF s[ob] # LB THEN 0 ELSE FirstIdx(s, RB, ob + 1)

\* the match object: group 1 is the bracket group, group 2 the argument
MatchGroups(s, p, cmd, ob, cb) ==
    IF p >= 1 /\ p <= Len(s) /\ s[p] = cmd /\ cb >= ob + 2
    THEN [ok |-> TRUE, start |-> p, last |-> cb,
          opts |-> SubSeq(s, p + 1, ob - 1), fname |-> SubSeq(s, ob + 1, cb - 1)]
    ELSE NoMatch(p)

MatchOptArg(s, p, cmd) ==
    MatchGroups(s, p, cmd, ArgOpen(s, p), ArgClose(s, ArgOpen(s, p)))

\* INCL_RE = \\includegraphics(\[[^\]]*\])?\{([^}]+)\} tried at position p
MatchIncl(s, p) == MatchOptArg(s, p, IG)

\* INCL_RE.finditer(s): the non-overlapping matches from position i on
RECURSIVE InclMatches(_, _)
\* the scan goes on after a match, or one token after a failed attempt at j
InclAfter(s, j, m) ==
    IF j = 0 THEN <<>>
    ELSE IF m.ok THEN <<m>> \o InclMatches(s, m.last + 1)
    ELSE InclMatches(s, j + 1)

InclMatches(s, i) == InclAfter(s, FirstIdx(s, IG, i), MatchIncl(s, FirstIdx(s, IG, i)))

\* m.group(0)
Group0(s, m) == SubSeq(s, m.start, m.last)

\* preceding.rfind('\\pdftooltip{'): the index of the nearest wrapper opening
\* that lies wholly before position start, or 0
LastTooltip(s, start) ==
    LET cands == {q \in 1..(start - 2) : s[q] = TT /\ s[q + 1] = LB}
    IN  IF cands = {} THEN 0 ELSE Max(cands)

\* net brace depth of s[from..to]
Depth(s, from, to) ==
    Cardinality({i \in from..to : s[i] = LB}) - Cardinality({i \in from..to : s[i] = RB})

\* a scanner that never recognises a wrapper
is_already_wrapped_never(text, match_start) == FALSE

is_already_wrapped(text, match_start) ==
    LET last_tt == LastTooltip(text, match_start)
    IN  IF last_tt = 0 THEN FALSE
        ELSE Depth(text, last_tt, match_start - 1) > 0

\* a wrapper that forgets the directive's options
Wrapper_no_opts(marker, opts, fname, guess) ==
    <<TT, LB, IG, LB>> \o fname \o <<RB, RB, LB>> \o <<marker, SP>> \o guess \o <<RB>>

\* the wrapper both scripts emit around an unwrapped directive
Wrapper(marker, opts, fname, guess) ==
    <<TT, LB, IG>> \o opts \o <<LB>> \o fname \o <<RB, RB, LB>>
    \o <<marker, SP>> \o guess \o <<RB>>

RECURSIVE WrapLoopTex(_, _, _, _)
WrapLoopTex(text, ms, k, prv) ==
    IF k > Len(ms) THEN SubSeq(text, prv, Len(text))
    ELSE LET m == ms[k]
         IN  SubSeq(text, prv, m.start - 1)
             \o (IF is_already_wrapped(text, m.start) THEN Group0(text, m)
                 ELSE Wrapper(ALT_MARKER_tex, m.opts, m.fname, guess_alt_tex(m.fname)))
             \o WrapLoopTex(text, ms, k + 1, m.last + 1)

wrap_images_tex(text) == WrapLoopTex(text, InclMatches(text, 1), 1, 1)

\* make_accessible.py: the index just past the closing brace of the first
\* argument opened at inner - 1 (the while loop of replacer), Len + 1 when
\* the argument never closes
FirstArgEnd(text, pos, depth) ==
    IF pos > Len(text) THEN pos
    ELSE Min({q \in pos..(Len(text) + 1) :
                 q = Len(text) + 1 \/ depth + Depth(text, pos, q - 1) <= 0})

\* a replacer that never recognises a wrapper
replacer_wrapped_never(text, start) == FALSE

replacer_wrapped(text, start) ==
    LET last_tt == LastTooltip(text, start)
    IN  last_tt # 0 /\ start < FirstArgEnd(text, last_tt + 2, 1)

RECURSIVE SubLoopPy(_, _, _, _)
SubLoopPy(text, ms, k, prv) ==
    IF k > Len(ms) THEN SubSeq(text, prv, Len(text))
    ELSE LET m == ms[k]
         IN  SubSeq(text, prv, m.start - 1)
             \o (IF replacer_wrapped(text, m.start) THEN Group0(text, m)
                 ELSE Wrapper(ALT_MARKER_py, m.opts, m.fname, guess_alt_py(m.fname)))
             \o SubLoopPy(text, ms, k + 1, m.last + 1)

wrap_images_py(text) == SubLoopPy(text, InclMatches(text, 1), 1, 1)

wrap_images(p, text) == IF p = "tex" THEN wrap_images_tex(text) ELSE wrap_images_py(text)

\* ------------------------------------------------------------- the alt map
\* A map is a function from base names to alt texts (a Python dict).
EmptyMap == [k \in {} |-> <<>>]

\* dict assignment: alt_map[k] = v
Put(m, k, v) == [x \in DOMAIN m \cup {k} |-> IF x = k THEN v ELSE m[x]]

\* the pattern of extract_alt_map tried at position p:
\* \\pdftooltip\{\\includegraphics(?:\[[^\]]*\])?\{([^}]+)\}\}\{([^}]+)\}
TooltipIncl(s, p) ==
    IF p >= 1 /\ p + 2 <= Len(s) /\ s[p] = TT /\ s[p + 1] = LB
    THEN MatchIncl(s, p + 2) ELSE NoMatch(p)

\* where the second argument closes ([^}]+ ends at the first "}"), or 0
AltClose(s, d) ==
    IF d.ok /\ d.last + 2 <= Len(s) /\ s[d.last + 1] = RB /\ s[d.last + 2] = LB
    THEN FirstIdx(s, RB, d.last + 3) ELSE 0

TooltipGroups(s, p, d, cb) ==
    IF d.ok /\ cb >= d.last + 4
    THEN [ok |-> TRUE, start |-> p, last |-> cb, opts |-> d.opts,
          fname |-> d.fname, alt |-> SubSeq(s, d.last + 3, cb - 1),
          incl |-> SubSeq(s, d.start, d.last)]
    ELSE [ok |-> FALSE, start |-> p, last |-> 0, opts |-> <<>>,
          fname |-> <<>>, alt |-> <<>>, incl |-> <<>>]

MatchTooltip(s, p) == TooltipGroups(s, p, TooltipIncl(s, p), AltClose(s, TooltipIncl(s, p)))

RECURSIVE TooltipMatches(_, _)
TooltipAfter(s, j, m) ==
    IF j = 0 THEN <<>>
    ELSE IF m.ok THEN <<m>> \o TooltipMatches(s, m.last + 1)
    ELSE TooltipMatches(s, j + 1)

TooltipMatches(s, i) ==
    TooltipAfter(s, FirstIdx(s, TT, i), MatchTooltip(s, FirstIdx(s, TT, i)))

\* make_accessible.py only: alt.replace(r'*\#*\#', '*#*#')
UnescapeHashes(s) == [i \in 1..Len(s) |-> IF s[i] = "*\\#*\\#" THEN "*#*#" ELSE s[i]]

RECURSIVE ExtractLoop(_, _, _, _)
ExtractLoop(p, ms, k, m) ==
    IF k > Len(ms) THEN m
    ELSE ExtractLoop(p, ms, k + 1,
             Put(m, PathName(ms[k].fname),
                 IF p = "py" THEN Strip(UnescapeHashes(ms[k].alt))
                 ELSE Strip(ms[k].alt)))

extract_alt_map_py(tex_text) == ExtractLoop("py", TooltipMatches(tex_text, 1), 1, EmptyMap)
extract_alt_map_tex(tex_text) == ExtractLoop("tex", TooltipMatches(tex_text, 1), 1, EmptyMap)
extract_alt_map(p, tex_text) ==
    IF p = "tex" THEN extract_alt_map_tex(tex_text) ELSE extract_alt_map_py(tex_text)

\* ------------------------------------------------------------- the titles
UP == "\\usepackage"
DCL == "\\documentclass"
TITLE == "\\title"
PCT == "%"
INDENT == "    "

\* a command name: a backslash and letters (\\[a-zA-Z]+)
IsCommand(tok) ==
    tok \in {TT, IG, UP, DCL, TITLE, "\\IfFileExists", "\\newcommand", "\\textbf"}

\* str.splitlines(keepends = False) as far as pdf_title needs it
RECURSIVE Lines(_)
Lines(s) ==
    LET i == FirstIdx(s, NL, 1)
    IN  IF s = <<>> THEN <<>>
        ELSE IF i = 0 THEN <<s>>
        ELSE <<SubSeq(s, 1, i - 1)>> \o Lines(SubSeq(s, i + 1, Len(s)))

RECURSIVE DropWhile(_, _)
DropWhile(s, toks) ==
    IF s # <<>> /\ Head(s) \in toks THEN DropWhile(Tail(s), toks) ELSE s

RECURSIVE DropWhileEnd(_, _)
DropWhileEnd(s, toks) ==
    IF s # <<>> /\ s[Len(s)] \in toks
    THEN DropWhileEnd(SubSeq(s, 1, Len(s) - 1), toks) ELSE s

\* re.match(r'%+\s*(.+)', line): group(1).strip('%').strip(), <<>> when the
\* line does not match
CommentTitle(line) ==
    IF line = <<>> \/ Head(line) # PCT THEN <<>>
    ELSE LET g == DropWhile(DropWhile(line, {PCT}), {SP})
         IN  Strip(DropWhileEnd(DropWhile(g, {PCT}), {PCT}))

RECURSIVE FirstCommentTitle(_)
FirstCommentTitle(ls) ==
    IF ls = <<>> THEN <<>>
    ELSE IF CommentTitle(Head(ls)) # <<>> THEN CommentTitle(Head(ls))
    ELSE FirstCommentTitle(Tail(ls))

TITLE_MAP(stem) ==
    CASE stem = "474_IntroW22"        -> <<"ECE 474: Course Introduction">>
      [] stem = "Cprog"               -> <<"ECE 474: Structure and Compilation of C Programs">>
      [] stem = "Hardware_IO"         -> <<"ECE 474: Hardware and Basic I/O">>
      [] stem = "Interrupts"          -> <<"ECE 474: Interrupts">>
      [] stem = "Schedulers"          -> <<"ECE 474: Schedulers">>
      [] stem = "SchedImplementation" -> <<"ECE 474: Scheduler Implementation">>
      [] stem = "Pointers"            -> <<"ECE 474: Pointers in C">>
      [] stem = "CritSect"            -> <<"ECE 474: Critical Sections">>
      [] stem = "Serial"              -> <<"ECE 474: Serial Communication">>
      [] stem = "USB"                 -> <<"ECE 474: Introduction to USB">>
      [] stem = "ConstDef"            -> <<"ECE 474: C Constants and Preprocessor Directives">>
      [] stem = "Secure"              -> <<"ECE 474: Secure Coding">>
      [] stem = "MicroCos"            -> <<"ECE 474: Micro-C OS/II Overview">>
      [] OTHER -> <<>>

\* make_accessible.py: the title of the file with this stem and this content
pdf_title(stem, text) ==
    IF TITLE_MAP(stem) # <<>> THEN TITLE_MAP(stem)
    ELSE IF FirstCommentTitle(Lines(text)) # <<>>
         THEN <<"ECE 474: ">> \o FirstCommentTitle(Lines(text))
    ELSE <<"ECE 474: ", stem>>

\* the first match of a command with one brace group, from position i on
RECURSIVE FirstOptArg(_, _, _)
FirstOptArgAfter(s, j, cmd, m) ==
    IF j = 0 \/ m.ok THEN m ELSE FirstOptArg(s, j + 1, cmd)

FirstOptArg(s, i, cmd) ==
    FirstOptArgAfter(s, FirstIdx(s, cmd, i), cmd, MatchOptArg(s, FirstIdx(s, cmd, i), cmd))

\* \\title\{([^}]+)\}: no bracket group is allowed
RECURSIVE FirstTitle(_, _)
FirstTitleAfter(s, m) ==
    IF ~m.ok \/ m.opts = <<>> THEN m ELSE FirstTitle(s, m.start + 1)

FirstTitle(s, i) == FirstTitleAfter(s, FirstOptArg(s, i, TITLE))

\* re.sub(r'\\[a-zA-Z]+\s*', '', t): commands and the blanks after them go
RECURSIVE DropCommands(_)
DropCommands(s) ==
    IF s = <<>> THEN <<>>
    ELSE IF IsCommand(Head(s)) THEN DropCommands(DropWhile(Tail(s), {SP, NL}))
    ELSE <<Head(s)>> \o DropCommands(Tail(s))

\* stem.replace('_', '\_')
EscapeUnderscores(stem) ==
    CASE stem = "my_notes" -> "my\\_notes"
      [] OTHER -> stem

\* make_accessible_tex.py: the first re.sub of get_title needs a closing brace
\* inside a group that holds none, so it changes nothing
get_title(stem, text) ==
    LET m == FirstTitle(text, 1)
    IN  IF m.ok THEN Strip(DropCommands(m.fname))
        ELSE <<EscapeUnderscores(stem)>>

\* ------------------------------------------------------- preamble patching
AUTHOR_py == "Blake Hannaford, University of Washington"
SUBJECT_py == "ECE 474 Embedded Microcomputer Systems"
KEYWORDS_py == "embedded systems, microcontrollers, ECE 474"
AUTHOR_tex == "Your Name"
SUBJECT_tex == "Your Subject"
KEYWORDS_tex == "keyword1, keyword2"

PREAMBLE_TEMPLATE(prefix) ==
    prefix \o <<UP, LSQ, "T1", RSQ, LB, "fontenc", RB, NL>>
    \o prefix \o <<UP, LB, "lmodern", RB, NL>>
    \o prefix \o <<UP, LSQ, "utf8", RSQ, LB, "inputenc", RB, NL>>
    \o prefix \o <<UP, LSQ, "english", RSQ, LB, "babel", RB>>

HYPERREF_TEMPLATE(prefix, title, author, subject, keywords) ==
    prefix \o <<UP, LSQ, "pdftex,", NL>>
    \o prefix \o <<INDENT, "pdftitle=", LB>> \o title \o <<RB, ",", NL>>
    \o prefix \o <<INDENT, "pdfauthor=", LB, author, RB, ",", NL>>
    \o prefix \o <<INDENT, "pdflang=", LB, "en-US", RB, ",", NL>>
    \o prefix \o <<INDENT, "pdfsubject=", LB, subject, RB, ",", NL>>
    \o prefix \o <<INDENT, "pdfkeywords=", LB, keywords, RB, ",", NL>>
    \o prefix \o <<INDENT, "colorlinks=true,", NL>>
    \o prefix \o <<INDENT, "linkcolor=blue,", NL>>
    \o prefix \o <<INDENT, "urlcolor=blue,", NL>>
    \o prefix \o <<INDENT, "citecolor=blue,", NL>>
    \o prefix \o <<INDENT, "unicode", RSQ, LB, "hyperref", RB, NL>>
    \o prefix \o <<"\\IfFileExists", LB, "pdfcomment.sty", RB,
                   LB, UP, LB, "pdfcomment", RB, RB,
                   LB, "\\newcommand", LB, TT, RB, LSQ, "2", RSQ, LB, "#1", RB, RB>>

ACCESSIBILITY_PACKAGES ==
    <<UP, LSQ, "T1", RSQ, LB, "fontenc", RB, NL,
      UP, LB, "lmodern", RB, NL,
      UP, LSQ, "utf8", RSQ, LB, "inputenc", RB, NL,
      UP, LSQ, "english", RSQ, LB, "babel", RB>>

build_hyperref_block(title) ==
    <<UP, LSQ, "pdftex,", NL, INDENT, "pdftitle=", LB>> \o title \o <<RB, ",", NL,
      INDENT, "pdfauthor=", LB, AUTHOR_tex, RB, ",", NL,
      INDENT, "pdflang=", LB, "en-US", RB, ",", NL,
      INDENT, "pdfsubject=", LB, SUBJECT_tex, RB, ",", NL,
      INDENT, "pdfkeywords=", LB, KEYWORDS_tex, RB, ",", NL,
      INDENT, "colorlinks=true,", NL,
      INDENT, "linkcolor=blue,", NL,
      INDENT, "urlcolor=blue,", NL,
      INDENT, "citecolor=blue,", NL,
      INDENT, "unicode", RSQ, LB, "hyperref", RB, NL,
      "\\IfFileExists", LB, "pdfcomment.sty", RB,
      LB, UP, LB, "pdfcomment", RB, RB,
      LB, "\\newcommand", LB, TT, RB, LSQ, "2", RSQ, LB, "#1", RB, RB>>

\* needle in tok, for the marker words of already_patched
TokHas(tok, needle) ==
    CASE needle = "fontenc"    -> tok = "fontenc"
      [] needle = "lmodern"    -> tok = "lmodern"
      [] needle = "pdftitle"   -> tok = "pdftitle="
      [] needle = "pdfcomment" -> tok \in {"pdfcomment", "pdfcomment.sty"}
      [] OTHER -> FALSE

\* needle in text
In(needle, text) == \E i \in 1..Len(text) : TokHas(text[i], needle)

already_patched_tex(text) ==
    In("fontenc", text) /\ In("lmodern", text) /\ In("pdftitle", text)

already_patched_py(text) ==
    /\ In("fontenc", text) /\ In("lmodern", text)
    /\ In("pdftitle", text) /\ In("pdfcomment", text)

already_patched(p, text) ==
    IF p = "tex" THEN already_patched_tex(text) ELSE already_patched_py(text)

\* least p >= from with pat at s[p..], or 0 (a literal pattern)
FindSeq(s, pat, from) ==
    LET cands == {q \in from..(Len(s) - Len(pat) + 1) :
                     SubSeq(s, q, q + Len(pat) - 1) = pat}
    IN  IF cands = {} THEN 0 ELSE Min(cands)

\* s with s[from..to] replaced by r
Splice(s, from, to, r) == SubSeq(s, 1, from - 1) \o r \o SubSeq(s, to + 1, Len(s))

patch_preamble_py(text, prefix, title) ==
    LET preamble == PREAMBLE_TEMPLATE(prefix)
        hyperref == HYPERREF_TEMPLATE(prefix, title, AUTHOR_py, SUBJECT_py, KEYWORDS_py)
        g1 == prefix \o <<UP, LB, "graphicx", RB, NL>>
        g2 == prefix \o <<UP, LB, "hyperref", RB, NL>>
        g3 == prefix \o <<UP, LB, "listings", RB, NL>>
        \* pat: the graphicx line, the hyperref line, optionally the listings line
        at == FindSeq(text, g1 \o g2, 1)
        e == at + Len(g1) + Len(g2)
        listings == IF at # 0 /\ e + Len(g3) - 1 <= Len(text)
                       /\ SubSeq(text, e, e + Len(g3) - 1) = g3
                    THEN g3 ELSE <<>>
        \* Fallback 1: the bare hyperref declaration alone
        b == FindSeq(text, prefix \o <<UP, LB, "hyperref", RB>>, 1)
        new_1 == IF at # 0
                 THEN Splice(text, at, e + Len(listings) - 1,
                             preamble \o <<NL>> \o g1 \o hyperref \o <<NL>> \o listings)
                 ELSE IF b # 0 THEN Splice(text, b, b + Len(prefix) + 3, hyperref)
                 ELSE text
        \* Fallback 2: after the class declaration
        d == FirstOptArg(text, 1, DCL)
    IN  IF new_1 # text THEN new_1
        ELSE IF d.ok
             THEN Splice(text, d.start, d.last,
                         SubSeq(text, d.start, d.last) \o <<NL>> \o preamble
                         \o <<NL>> \o hyperref)
        ELSE text

\* ---- make_accessible_tex.py: re.sub with a replacement string
\* the character after the backslash a token starts with or holds, "" if none
EscapeChar(tok) ==
    CASE tok = UP               -> "u"
      [] tok = "\\IfFileExists" -> "I"
      [] tok = "\\newcommand"   -> "n"
      [] tok = TT               -> "p"
      [] tok = "\\n"            -> "n"
      [] tok = "\\1"            -> "1"
      [] tok = "my\\_notes"     -> "_"
      [] OTHER                  -> ""

\* sre_parse.parse_template: a backslash before an ASCII letter that is no
\* escape of the template language is an error ("bad escape")
TemplateEscapes == {"a", "b", "f", "n", "r", "t", "v", "g"}
AsciiLetters == {"u", "I", "p", "n", "a", "b", "f", "r", "t", "v", "g"}
BadEscape(tok) == EscapeChar(tok) \in AsciiLetters \ TemplateEscapes
TemplateError(template) == \E i \in 1..Len(template) : BadEscape(template[i])

\* the expansion of a valid template, g1 being group 1 of the match
RECURSIVE Expand(_, _)
Expand(template, g1) ==
    IF template = <<>> THEN <<>>
    ELSE LET t == Head(template)
         IN  (CASE t = "\\1" -> g1
                [] t = "\\n" -> <<NL>>
                [] t = "\\newcommand" -> <<NL, "ewcommand">>
                [] OTHER -> <<t>>) \o Expand(Tail(template), g1)

\* pattern.sub(template, text, count=1) where m is the pattern's first match:
\* the template is compiled before the text is searched
re_sub_template(text, m, template) ==
    IF TemplateError(template) THEN [raised |-> "re.error", text |-> text]
    ELSE IF ~m.ok THEN [raised |-> "none", text |-> text]
    ELSE [raised |-> "none",
          text |-> Splice(text, m.start, m.last,
                          Expand(template, SubSeq(text, m.start, m.last)))]

\* \\usepackage(?:\[[^\]]*\])?\{pkg\}: the first match from position i on
RECURSIVE FirstUsepackage(_, _, _)
FirstUsepackageAfter(s, pkg, m) ==
    IF ~m.ok \/ m.fname = <<pkg>> THEN m ELSE FirstUsepackage(s, m.start + 1, pkg)

FirstUsepackage(s, i, pkg) == FirstUsepackageAfter(s, pkg, FirstOptArg(s, i, UP))

\* bare_href_pat.sub('', text): every match removed
RECURSIVE RemoveUsepackage(_, _, _)
RemoveUsepackageAfter(s, i, pkg, m) ==
    IF ~m.ok THEN SubSeq(s, i, Len(s))
    ELSE SubSeq(s, i, m.start - 1) \o RemoveUsepackage(s, m.last + 1, pkg)

RemoveUsepackage(s, i, pkg) == RemoveUsepackageAfter(s, i, pkg, FirstUsepackage(s, i, pkg))

\* returns [raised, text]: the exception the call ends with, or the result
patch_preamble_tex(text, title) ==
    LET hyperref_block == build_hyperref_block(title)
        no_href == RemoveUsepackage(text, 1, "hyperref")
    IN  IF FirstUsepackage(text, 1, "graphicx").ok
        THEN re_sub_template(no_href, FirstUsepackage(no_href, 1, "graphicx"),
                 ACCESSIBILITY_PACKAGES \o <<"\\n", "\\1", "\\n">> \o hyperref_block)
        ELSE IF FirstUsepackage(text, 1, "hyperref").ok
        THEN re_sub_template(text, FirstUsepackage(text, 1, "hyperref"),
                 ACCESSIBILITY_PACKAGES \o <<NL>> \o hyperref_block)
        ELSE re_sub_template(text, FirstOptArg(text, 1, DCL),
                 <<"\\1", "\\n">> \o ACCESSIBILITY_PACKAGES \o <<NL>> \o hyperref_block)

\* ---- apply_pdf_accessibility up to the comparison with the text read:
\* [raised, text]
IsStreamTag(tok) == tok \in {"<shn>", "<chn>"}

\* re.search(r'(<[a-z]+>)\\usepackage\{hyperref\}', text): group 1 or ''
StreamPrefix(text) ==
    LET cands == {i \in 1..(Len(text) - 4) :
                     IsStreamTag(text[i])
                     /\ SubSeq(text, i + 1, i + 4) = <<UP, LB, "hyperref", RB>>}
    IN  IF cands = {} THEN <<>> ELSE <<text[Min(cands)]>>

compute_new_text_py(stem, text) ==
    [raised |-> "none",
     text |-> wrap_images_py(
                 IF already_patched_py(text) THEN text
                 ELSE patch_preamble_py(text, StreamPrefix(text), pdf_title(stem, text)))]

\* wrap_images runs on the patched text unless patch_preamble raised
WrapPatched(r) ==
    IF r.raised # "none" THEN r ELSE [raised |-> "none", text |-> wrap_images_tex(r.text)]

compute_new_text_tex(stem, text) ==
    WrapPatched(IF already_patched_tex(text) THEN [raised |-> "none", text |-> text]
                ELSE patch_preamble_tex(text, get_title(stem, text)))

compute_new_text(p, stem, text) ==
    IF p = "tex" THEN compute_new_text_tex(stem, text) ELSE compute_new_text_py(stem, text)

\* ---------------------------------------------------- bounded source texts
MaxChunks == 4
MaxPasses == 2

Da == <<IG, LB, "a", ".png", RB>>
Db == <<IG, LSQ, "w", RSQ, LB, "d", SLASH, "b", ".png", RB>>
\* a wrapper a human wrote, with authored alt text
Wc == <<TT, LB, IG, LB, "c", ".png", RB, RB, LB, "alt", RB>>

\* a tooltip a human put on plain text
Wx == <<TT, LB, "x", RB, LB, "tip", RB>>

Chunks == << <<TT, LB>>, <<LB>>, <<RB>>, Da, Db, Wc, Wx >>

ChunkTexts(n) == {Concat([i \in 1..n |-> Chunks[f[i]]]) : f \in [1..n -> 1..Len(Chunks)]}
Texts == UNION {ChunkTexts(n) : n \in 0..MaxChunks}

\* ------------------------------------------------ the image wrapper alone
InitWrap ==
    /\ prog \in Progs
    /\ src \in Texts
    /\ prev = src
    /\ passes = 0
    /\ alt_map = EmptyMap
    /\ raised = "none"
    /\ pc = "wrap"
    /\ doc = "Interrupts"
    /\ new_text = <<>>
    /\ bak = Absent
    /\ make_backup = TRUE
    /\ on_path = {}
    /\ tex_file = Absent
    /\ tmp_file = Absent
    /\ html_file = Absent
    /\ status = NotRun
    /\ rendered = <<>>
    /\ NoGuess /\ NoBatch

\* one call of wrap_images on the source
WrapImages ==
    /\ pc = "wrap"
    /\ passes < MaxPasses
    /\ prev' = src
    /\ src' = wrap_images(prog, src)
    /\ passes' = passes + 1
    /\ UNCHANGED <<guessvars, mainvars, prog, alt_map, raised, pc, doc, new_text, bak, make_backup, htmlvars>>

\* one call of extract_alt_map on the wrapped source
ExtractAltMap ==
    /\ pc = "wrap"
    /\ passes >= 1
    /\ alt_map' = extract_alt_map(prog, src)
    /\ pc' = "extracted"
    /\ UNCHANGED <<guessvars, mainvars, prog, src, prev, passes, raised, doc, new_text, bak, make_backup, htmlvars>>

NextWrap == WrapImages \/ ExtractAltMap

SpecWrap == InitWrap /\ [][NextWrap]_vars

\* ----------------------------------------------------- the patcher's runs
MaxLines == 3

DC == <<DCL, LB, "article", RB, NL>>
GX(pf) == pf \o <<UP, LB, "graphicx", RB, NL>>
HR(pf) == pf \o <<UP, LB, "hyperref", RB, NL>>
HRo(pf) == pf \o <<UP, LSQ, "colorlinks", RSQ, LB, "hyperref", RB, NL>>
LS(pf) == pf \o <<UP, LB, "listings", RB, NL>>
FE(pf) == pf \o <<UP, LSQ, "T1", RSQ, LB, "fontenc", RB, NL>>
FIG == Da \o <<NL>>
\* a preamble written by hand: the font packages and hyperref with a title,
\* and no tooltip package
HP(pf) == FE(pf) \o pf \o <<UP, LB, "lmodern", RB, NL>>
          \o pf \o <<UP, LSQ, "pdftitle=", LB, "T", RB, RSQ, LB, "hyperref", RB, NL>>

PreChunks(pf) == <<DC, GX(pf), HR(pf), HRo(pf), LS(pf), FE(pf), FIG, HP(pf)>>

PreTextsOf(pf, n) ==
    {Concat([i \in 1..n |-> PreChunks(pf)[f[i]]]) : f \in [1..n -> 1..Len(PreChunks(pf))]}
PreTexts(pf) == UNION {PreTextsOf(pf, n) : n \in 0..MaxLines}

\* a .shn source tags its preamble lines with a stream prefix
Prefixes(p) == IF p = "py" THEN {<<>>, <<"<shn>">>} ELSE {<<>>}

Docs == {"Interrupts", "my_notes"}

InitPatch ==
    /\ prog \in Progs
    /\ \E pf \in Prefixes(prog) : src \in PreTexts(pf)
    /\ doc \in Docs
    /\ make_backup \in BOOLEAN
    /\ prev = src
    /\ passes = 0
    /\ alt_map = EmptyMap
    /\ raised = "none"
    /\ pc = "idle"
    /\ new_text = <<>>
    /\ bak = Absent
    /\ on_path = {}
    /\ tex_file = Absent
    /\ tmp_file = Absent
    /\ html_file = Absent
    /\ status = NotRun
    /\ rendered = <<>>
    /\ NoGuess /\ NoBatch

\* apply_pdf_accessibility: read the file and compute new_text; an exception
\* ends the program, equal texts end the run ("no changes needed")
ApplyCompute ==
    /\ pc = "idle"
    /\ passes < MaxPasses
    /\ \E r \in {compute_new_text(prog, doc, src)} :
           /\ raised' = r.raised
           /\ IF r.raised # "none"
              THEN pc' = "crashed" /\ UNCHANGED <<new_text, prev, passes>>
              ELSE /\ new_text' = r.text
                   /\ IF r.text # src
                      THEN /\ pc' = IF make_backup THEN "backup" ELSE "write"
                           /\ UNCHANGED <<prev, passes>>
                      ELSE pc' = "idle" /\ prev' = src /\ passes' = passes + 1
    /\ UNCHANGED <<guessvars, mainvars, prog, src, alt_map, doc, bak, make_backup, htmlvars>>

\* a backup taken of the text about to be written
Backup_of_new_text ==
    /\ pc = "backup"
    /\ bak' = new_text
    /\ pc' = "write"
    /\ UNCHANGED <<guessvars, mainvars, prog, src, prev, passes, alt_map, raised, doc,
                   new_text, make_backup, htmlvars>>

\* backup(shn_path) / shutil.copy2(tex_path, bak)
Backup ==
    /\ pc = "backup"
    /\ bak' = src
    /\ pc' = "write"
    /\ UNCHANGED <<guessvars, mainvars, prog, src, prev, passes, alt_map, raised, doc, new_text, make_backup, htmlvars>>

\* path.write_text(new_text)
Write ==
    /\ pc = "write"
    /\ prev' = src
    /\ src' = new_text
    /\ passes' = passes + 1
    /\ pc' = "idle"
    /\ UNCHANGED <<guessvars, mainvars, prog, alt_map, raised, doc, new_text, bak, make_backup, htmlvars>>

NextPatch == ApplyCompute \/ Backup \/ Write

SpecPatch == InitPatch /\ [][NextPatch]_vars

\* --------------------------------------------------------- the HTML pipeline
\* preprocess_for_pandoc, first substitution: every match of
\* \\pdftooltip\{(\\includegraphics(?:\[[^\]]*\])?\{[^}]+\})\}\{[^}]+\}
\* is replaced by its group 1
RECURSIVE UnwrapLoop(_, _, _, _)
UnwrapLoop(s, ms, k, prv) ==
    IF k > Len(ms) THEN SubSeq(s, prv, Len(s))
    ELSE SubSeq(s, prv, ms[k].start - 1) \o ms[k].incl
         \o UnwrapLoop(s, ms, k + 1, ms[k].last + 1)

Unwrap(s) == UnwrapLoop(s, TooltipMatches(s, 1), 1, 1)

\* the lines of s with their line breaks; the last line may have none
RECURSIVE LinesKeepEnds(_)
LinesKeepEnds(s) ==
    IF s = <<>> THEN <<>>
    ELSE IF FirstIdx(s, NL, 1) = 0 THEN <<s>>
    ELSE <<SubSeq(s, 1, FirstIdx(s, NL, 1))>>
         \o LinesKeepEnds(SubSeq(s, FirstIdx(s, NL, 1) + 1, Len(s)))

EndsLine(line) == line # <<>> /\ line[Len(line)] = NL

\* [^\n]*IfFileExists[^\n]*pdfcomment[^\n]*\n matches the line
IsIfFileExistsLine(line) ==
    /\ EndsLine(line)
    /\ \E i \in 1..Len(line) : \E j \in (i + 1)..Len(line) :
          line[i] = "\\IfFileExists" /\ TokHas(line[j], "pdfcomment")

\* [^\n]*usepackage\{pdfcomment\}[^\n]*\n matches the line
IsPdfcommentLine(line) ==
    EndsLine(line) /\ FindSeq(line, <<UP, LB, "pdfcomment", RB>>, 1) # 0

DropLine(kind, line) ==
    IF kind = "IfFileExists" THEN IsIfFileExistsLine(line) ELSE IsPdfcommentLine(line)

KeepLines(kind, ls) == Concat([i \in 1..Len(ls) |-> IF DropLine(kind, ls[i]) THEN <<>> ELSE ls[i]])

\* re.sub(pattern, '', text) for one of the two line patterns
RemoveLines(kind, s) == KeepLines(kind, LinesKeepEnds(s))

preprocess_for_pandoc_py(tex_text) ==
    RemoveLines("usepackage", RemoveLines("IfFileExists", Unwrap(tex_text)))

\* make_accessible_tex.py writes [^\n] where make_accessible.py writes a dot
preprocess_for_pandoc_tex(tex_text) ==
    RemoveLines("usepackage", RemoveLines("IfFileExists", Unwrap(tex_text)))

preprocess_for_pandoc(p, tex_text) ==
    IF p = "tex" THEN preprocess_for_pandoc_tex(tex_text)
    ELSE preprocess_for_pandoc_py(tex_text)

IMG == "<img "
GT == ">"
Q == "\""

\* <img [^>]+> tried at p: the index of the closing ">", or 0
TagEnd(html, p) ==
    IF p # 0 /\ FirstIdx(html, GT, p + 1) > p + 1 THEN FirstIdx(html, GT, p + 1) ELSE 0

\* the matches re.sub walks through, as [start, last]
RECURSIVE ImgTags(_, _)
ImgTagsAfter(html, j, e) ==
    IF j = 0 THEN <<>>
    ELSE IF e # 0 THEN <<[start |-> j, last |-> e]>> \o ImgTags(html, e + 1)
    ELSE ImgTags(html, j + 1)

ImgTags(html, i) ==
    ImgTagsAfter(html, FirstIdx(html, IMG, i), TagEnd(html, FirstIdx(html, IMG, i)))

\* re.search(r'src="([^"]+)"', tag): where it matches
SrcMatches(tag) ==
    {i \in 1..(Len(tag) - 3) :
        tag[i] = "src=" /\ tag[i + 1] = Q /\ FirstIdx(tag, Q, i + 2) > i + 2}

\* Path(src_m.group(1)).name
SrcName(tag) ==
    PathName(SubSeq(tag, Min(SrcMatches(tag)) + 2,
                    FirstIdx(tag, Q, Min(SrcMatches(tag)) + 2) - 1))

\* 'alt=' in tag: a substring test
AltInTag(tag) == \E i \in 1..Len(tag) : tag[i] \in {"alt=", "data-alt="}

\* alt_map.get(fname, '')
Get(m, k) == IF k \in DOMAIN m THEN m[k] ELSE <<>>

\* tag.replace('<img ', f'<img alt="{alt}" ', 1) if alt else tag
InsertAlt(tag, alt) ==
    IF alt # <<>> THEN <<IMG, "alt=", Q>> \o alt \o <<Q, SP>> \o Tail(tag) ELSE tag

add_alt_py(tag, m) ==
    IF SrcMatches(tag) = {} THEN tag
    ELSE IF AltInTag(tag) THEN tag
    ELSE InsertAlt(tag, Get(m, SrcName(tag)))

add_alt_tex(tag, m) ==
    IF SrcMatches(tag) = {} \/ AltInTag(tag) THEN tag
    ELSE InsertAlt(tag, Get(m, SrcName(tag)))

add_alt(p, tag, m) == IF p = "tex" THEN add_alt_tex(tag, m) ELSE add_alt_py(tag, m)

RECURSIVE SubTags(_, _, _, _, _, _)
SubTags(p, html, m, ts, k, prv) ==
    IF k > Len(ts) THEN SubSeq(html, prv, Len(html))
    ELSE SubSeq(html, prv, ts[k].start - 1)
         \o add_alt(p, SubSeq(html, ts[k].start, ts[k].last), m)
         \o SubTags(p, html, m, ts, k + 1, ts[k].last + 1)

postprocess_html(p, html, m) == SubTags(p, html, m, ImgTags(html, 1), 1, 1)

\* ---- the documents and renderings generate_html meets
MaxTexChunks == 2
MaxTags == 2

\* a second wrapper for the base name c.png
Wd == <<TT, LB, IG, LB, "d", SLASH, "c", ".png", RB, RB, LB, "other", RB>>
\* an alt text with a brace group in it
Wn == <<TT, LB, IG, LB, "a", ".png", RB, RB, LB, "alt", SP, LB, "x", RB, SP, "y", RB>>
\* an alt text with blanks around it
Ws == <<TT, LB, IG, LSQ, "w", RSQ, LB, "d", SLASH, "b", ".png", RB, RB,
        LB, SP, "alt2", SP, RB>>
\* an alt text of blanks only
We == <<TT, LB, IG, LB, "e", ".png", RB, RB, LB, SP, RB>>
\* an alt text with escaped hash marks
Wh == <<TT, LB, IG, LB, "h", ".png", RB, RB, LB, "*\\#*\\#", RB>>
\* the tooltip fallback line of the Accessibility Block
IFE == <<"\\IfFileExists", LB, "pdfcomment.sty", RB, LB, UP, LB, "pdfcomment", RB, RB,
         LB, "\\newcommand", LB, TT, RB, LSQ, "2", RSQ, LB, "#1", RB, RB, NL>>
UPC == <<UP, LB, "pdfcomment", RB, NL>>

HtmlTexChunks == <<Da, Wc, Wd, Wn, Ws, We, Wh, IFE, UPC>>

HtmlTexDocsOf(n) ==
    {Concat([i \in 1..n |-> HtmlTexChunks[f[i]]]) : f \in [1..n -> 1..Len(HtmlTexChunks)]}
HtmlTexDocs == UNION {HtmlTexDocsOf(n) : n \in 0..MaxTexChunks}

Ha == <<IMG, "src=", Q, "a", ".png", Q, SP, SLASH, GT>>
Hb == <<IMG, "src=", Q, "d", SLASH, "b", ".png", Q, SP, "alt=", Q, "x", Q, SP, SLASH, GT>>
Hc == <<IMG, "src=", Q, "c", ".png", Q, SP, "data-alt=", Q, "y", Q, SP, SLASH, GT>>
He == <<IMG, "src=", Q, "e", ".png", Q, SP, SLASH, GT>>
Hn == <<IMG, "class=", Q, "z", Q, SP, SLASH, GT>>

HtmlChunks == <<Ha, Hb, Hc, He, Hn, <<"text">>>>

HtmlsOf(n) == {Concat([i \in 1..n |-> HtmlChunks[f[i]]]) : f \in [1..n -> 1..Len(HtmlChunks)]}
Htmls == UNION {HtmlsOf(n) : n \in 0..MaxTags}

\* an HTML file left by an earlier run
Stale == <<"stale">>

\* subprocess: result.returncode
ExitCodes == {0, 1}

InitHtml ==
    /\ prog \in Progs
    /\ on_path \in SUBSET {"coursetex", "pandoc"}
    /\ tex_file \in (IF prog = "py" THEN {Absent} ELSE {}) \cup HtmlTexDocs
    /\ html_file \in {Absent, Stale}
    /\ tmp_file = Absent
    /\ status = NotRun
    /\ rendered = <<>>
    /\ pc = "html"
    /\ doc = "Interrupts"
    /\ src = <<>>
    /\ prev = <<>>
    /\ passes = 0
    /\ alt_map = EmptyMap
    /\ raised = "none"
    /\ new_text = <<>>
    /\ bak = Absent
    /\ make_backup = TRUE
    /\ NoGuess /\ NoBatch

\* make_accessible.py, generate_html up to the test that the .tex file exists:
\* coursetex is an external program, its exit status and output are its own
RunCoursetex ==
    /\ prog = "py"
    /\ pc = "html"
    /\ IF "coursetex" \notin on_path \/ "pandoc" \notin on_path
       THEN pc' = "done" /\ UNCHANGED <<tex_file, status>>
       ELSE \E code \in ExitCodes : \E out \in HtmlTexDocs :
               /\ status' = [status EXCEPT !.coursetex = <<code>>]
               /\ tex_file' = IF code = 0 THEN out ELSE tex_file
               /\ pc' = IF tex_file' = Absent THEN "done" ELSE "read"
    /\ UNCHANGED <<guessvars, mainvars, prog, src, prev, passes, alt_map, raised, doc, new_text, bak,
                   make_backup, on_path, tmp_file, html_file, rendered>>

\* generate_html: read the .tex file, extract the alt map, write the
\* pre-processed copy (make_accessible_tex.py starts here, with its PATH test)
ReadTex ==
    /\ pc = IF prog = "py" THEN "read" ELSE "html"
    /\ IF prog = "tex" /\ "pandoc" \notin on_path
       THEN pc' = "done" /\ UNCHANGED <<alt_map, tmp_file>>
       ELSE /\ alt_map' = extract_alt_map(prog, tex_file)
            /\ tmp_file' = preprocess_for_pandoc(prog, tex_file)
            /\ pc' = "pandoc"
    /\ UNCHANGED <<guessvars, mainvars, prog, src, prev, passes, raised, doc, new_text, bak,
                   make_backup, on_path, tex_file, html_file, status, rendered>>

\* generate_html: run pandoc, remove the pre-processed copy, and post-process
\* the HTML file if pandoc succeeded
RunPandoc ==
    /\ pc = "pandoc"
    /\ \E code \in ExitCodes : \E out \in Htmls :
          /\ status' = [status EXCEPT !.pandoc = <<code>>]
          /\ IF code # 0 THEN UNCHANGED <<html_file, rendered>>
             ELSE /\ rendered' = out
                  /\ html_file' = postprocess_html(prog, out, alt_map)
    /\ tmp_file' = Absent
    /\ pc' = "done"
    /\ UNCHANGED <<guessvars, mainvars, prog, src, prev, passes, alt_map, raised, doc, new_text, bak,
                   make_backup, on_path, tex_file>>

NextHtml == RunCoursetex \/ ReadTex \/ RunPandoc

SpecHtml == InitHtml /\ [][NextHtml]_vars

\* ------------------------------------------------------------- main's loop
MaxFiles == 2

\* a source that carries the Accessibility Block already
Patched == DC \o ACCESSIBILITY_PACKAGES \o <<NL>> \o build_hyperref_block(<<"T">>)
           \o <<NL>> \o FIG

\* the documents a command line names: their content, Absent for a path
\* that does not exist
MainDocs == {Absent, DC \o FIG, FIG, Patched}

\* what coursetex leaves behind for one document, Absent when it wrote nothing
MainTexOuts == {Absent, Wc}

\* what pandoc renders for one document
MainHtmls == {Ha}

NewFile(text) == [src |-> text, bak |-> Absent, html |-> Absent]

Batches == UNION {[1..n -> {NewFile(d) : d \in MainDocs}] : n \in 1..MaxFiles}

\* the programs generate_html looks up with shutil.which
Tools(p) == IF p = "py" THEN {"coursetex", "pandoc"} ELSE {"pandoc"}

InitMain ==
    /\ prog \in Progs
    /\ files \in Batches
    /\ do_pdf \in BOOLEAN /\ do_html \in BOOLEAN /\ (do_pdf \/ do_html)
    /\ make_backup \in BOOLEAN
    /\ on_path \in {{}, {"coursetex", "pandoc"}}
    /\ file_idx = 1
    /\ steps = {}
    /\ pc = "loop"
    /\ raised = "none"
    /\ doc = "Interrupts"
    /\ src = <<>>
    /\ prev = <<>>
    /\ passes = 0
    /\ alt_map = EmptyMap
    /\ new_text = <<>>
    /\ bak = Absent
    /\ tex_file = Absent
    /\ tmp_file = Absent
    /\ html_file = Absent
    /\ status = NotRun
    /\ rendered = <<>>
    /\ NoGuess

\* the loop is at a document that exists
AtFile == pc = "loop" /\ file_idx <= Len(files) /\ files[file_idx].src # Absent

\* if not f.exists(): print a warning and continue
MainSkip ==
    /\ pc = "loop" /\ file_idx <= Len(files) /\ files[file_idx].src = Absent
    /\ steps' = steps \cup {<<file_idx, "skipped">>}
    /\ file_idx' = file_idx + 1
    /\ UNCHANGED <<guessvars, files, do_pdf, do_html, prog, src, prev, passes, alt_map,
                   raised, pc, doc, new_text, bak, make_backup, htmlvars>>

\* the file after apply_pdf_accessibility returned text r for it
Patch(f, r, backups) ==
    IF r = f.src THEN f
    ELSE [f EXCEPT !.src = r, !.bak = IF backups THEN f.src ELSE f.bak]

\* if do_pdf: apply_pdf_accessibility(f, make_backup); main has no handler
\* for an exception, which ends the program with a traceback
MainPdf ==
    /\ AtFile /\ do_pdf /\ <<file_idx, "pdf">> \notin steps
    /\ \E r \in {compute_new_text(prog, doc, files[file_idx].src)} :
          /\ raised' = r.raised
          /\ IF r.raised # "none"
             THEN pc' = "crashed" /\ UNCHANGED <<files, steps, file_idx>>
             ELSE /\ files' = [files EXCEPT ![file_idx] = Patch(@, r.text, make_backup)]
                  /\ steps' = steps \cup {<<file_idx, "pdf">>}
                  /\ file_idx' = IF do_html THEN file_idx ELSE file_idx + 1
                  /\ pc' = pc
    /\ UNCHANGED <<guessvars, do_pdf, do_html, prog, src, prev, passes, alt_map, doc,
                   new_text, bak, make_backup, htmlvars>>

\* if do_html: generate_html(f): it returns early when a program is missing,
\* when coursetex left no .tex file and when pandoc failed
MainHtml ==
    /\ AtFile /\ do_html /\ (do_pdf => <<file_idx, "pdf">> \in steps)
    /\ IF ~(Tools(prog) \subseteq on_path) THEN UNCHANGED files
       ELSE \E tex \in (IF prog = "py" THEN MainTexOuts ELSE {files[file_idx].src}) :
            \E code \in ExitCodes : \E out \in MainHtmls :
               files' = IF tex = Absent \/ code # 0 THEN files
                        ELSE [files EXCEPT ![file_idx].html =
                                 postprocess_html(prog, out, extract_alt_map(prog, tex))]
    /\ steps' = steps \cup {<<file_idx, "html">>}
    /\ file_idx' = file_idx + 1
    /\ UNCHANGED <<guessvars, do_pdf, do_html, prog, src, prev, passes, alt_map,
                   raised, pc, doc, new_text, bak, make_backup, htmlvars>>

\* print('\nDone.')
MainDone ==
    /\ pc = "loop" /\ file_idx > Len(files)
    /\ pc' = "ended"
    /\ UNCHANGED <<guessvars, mainvars, prog, src, prev, passes, alt_map, raised, doc,
                   new_text, bak, make_backup, htmlvars>>

NextMain == MainSkip \/ MainPdf \/ MainHtml \/ MainDone

SpecMain == InitMain /\ [][NextMain]_vars

\* ======================================================== the image wrapper
ALT_MARKER(p) == IF p = "tex" THEN ALT_MARKER_tex ELSE ALT_MARKER_py
guess_alt(p, filename) ==
    IF p = "tex" THEN guess_alt_tex(filename) ELSE guess_alt_py(filename)
MarkedGuess(p, filename) == <<ALT_MARKER(p), SP>> \o guess_alt(p, filename)

Has(text, tok) == \E i \in 1..Len(text) : text[i] = tok

\* the k-th span of text outside the directives ms (k in 1..Len(ms)+1)
Gap(text, ms, k) ==
    SubSeq(text, IF k = 1 THEN 1 ELSE ms[k - 1].last + 1,
                 IF k = Len(ms) + 1 THEN Len(text) ELSE ms[k].start - 1)

\* after is before with exactly the directives flagged by w wrapped (mb and
\* ma are the directives of before and of after): the same
\* directives in the same order, and between them the same text, preceded by
\* the tail of the previous directive's new wrapper and followed by the head
\* of the next directive's new wrapper
Aligned(p, before, after, mb, ma, w) ==
    LET n == Len(mb)
        Pre(k) == IF k <= n /\ w[k] THEN <<TT, LB>> ELSE <<>>
        Suf(k) == IF k >= 1 /\ w[k]
                  THEN <<RB, LB>> \o MarkedGuess(p, mb[k].fname) \o <<RB>>
                  ELSE <<>>
    IN  /\ Len(ma) = n
        /\ \A k \in 1..n : ma[k].opts = mb[k].opts /\ ma[k].fname = mb[k].fname
        /\ \A k \in 1..(n + 1) :
              Gap(after, ma, k) = Suf(k - 1) \o Gap(before, mb, k) \o Pre(k)

NDirectives(text) == Len(InclMatches(text, 1))

\* the directive m is exactly the first argument of a wrapper
IsFirstArg(text, m) ==
    /\ m.start >= 3 /\ text[m.start - 2] = TT /\ text[m.start - 1] = LB
    /\ m.last < Len(text) /\ text[m.last + 1] = RB

\* C1: wrap_images is idempotent: a second call on the output of a first
\* call returns that output unchanged, in both scripts.
Thm_C1_WrapIdempotent == passes >= 2 => src = prev

\* two passes ran over a source that held an authored wrapper and, inside a
\* brace group, a directive the first pass had to wrap
Wit_C1 ==
    /\ passes = 2
    /\ Has(src, ALT_MARKER(prog)) /\ Has(src, "alt")
    /\ NDirectives(src) >= 2
    /\ \E i \in 1..(Len(src) - 1) :
          src[i] = LB /\ src[i + 1] = TT /\ (i = 1 \/ src[i - 1] \notin {TT, RB})

\* C5: a directive that is the first argument of a wrapper is emitted as it
\* stands: nothing is inserted before it or after it, so the wrapper, the
\* directive and the authored alt text that follows are copied verbatim,
\* also between other wrapped and unwrapped directives.
Thm_C5_WrappedUntouched ==
    passes >= 1 =>
        LET mb == InclMatches(prev, 1)
            ma == InclMatches(src, 1)
        IN  \E w \in [1..Len(mb) -> BOOLEAN] :
                /\ \A k \in 1..Len(mb) : IsFirstArg(prev, mb[k]) => ~w[k]
                /\ Aligned(prog, prev, src, mb, ma, w)

\* a pass over two authored wrappers in a row followed by a bare directive
Wit_C5 ==
    /\ passes = 1
    /\ NDirectives(prev) = 3
    /\ LET ms == InclMatches(prev, 1)
       IN  /\ IsFirstArg(prev, ms[1]) /\ IsFirstArg(prev, ms[2])
           /\ ms[2].start = ms[1].last + 7
           /\ ~IsFirstArg(prev, ms[3])
    /\ src # prev

\* C6: the directives of wrap_images(S) are the directives of S, options and
\* file name unchanged and in the same order, and the text outside them is
\* the text of S plus the wrapper syntax put around the wrapped directives.
Thm_C6_DirectivesPreserved ==
    passes >= 1 =>
        LET mb == InclMatches(prev, 1)
            ma == InclMatches(src, 1)
        IN  \E w \in [1..Len(mb) -> BOOLEAN] : Aligned(prog, prev, src, mb, ma, w)

\* a pass that wrapped a directive with options next to another directive
Wit_C6 ==
    /\ passes = 1
    /\ NDirectives(prev) >= 2
    /\ \E k \in 1..NDirectives(prev) : InclMatches(prev, 1)[k].opts # <<>>
    /\ Len(src) > Len(prev) + 12

\* every brace of text is matched
Balanced(text) ==
    /\ Depth(text, 1, Len(text)) = 0
    /\ \A i \in 1..Len(text) : Depth(text, 1, i) >= 0

\* position pos lies inside the first argument of the wrapper opened at q:
\* the brace opened at q + 1 is not closed before pos
InFirstArg(text, q, pos) ==
    /\ q + 1 < pos /\ text[q] = TT /\ text[q + 1] = LB
    /\ \A c \in (q + 2)..(pos - 1) : Depth(text, q + 1, c) # 0

\* no directive of text lies inside the first argument of a wrapper
AllUnwrapped(text) ==
    \A k \in 1..NDirectives(text) : \A q \in 1..Len(text) :
        ~InFirstArg(text, q, InclMatches(text, 1)[k].start)

BaseNames(text) == {PathName(InclMatches(text, 1)[k].fname) : k \in 1..NDirectives(text)}

DistinctBaseNames(text) == Cardinality(BaseNames(text)) = NDirectives(text)

\* base name |-> ALT_MARKER, a blank, guess_alt of the directive's file name
ExpectedMap(p, text) ==
    LET ms == InclMatches(text, 1)
    IN  [b \in BaseNames(text) |->
            MarkedGuess(p, ms[CHOOSE k \in 1..Len(ms) : PathName(ms[k].fname) = b].fname)]

\* C7: for a source whose directives are all unwrapped and have pairwise
\* distinct base names, extract_alt_map(wrap_images(S)) maps each directive's
\* base name to the marked guess for its file name, and holds no other key.
\* Stated for sources whose braces are all matched.
CE_C7_AltMapRoundTrip ==
    (pc = "extracted" /\ passes = 1 /\ Balanced(prev)
        /\ AllUnwrapped(prev) /\ DistinctBaseNames(prev))
    => alt_map = ExpectedMap(prog, prev)

\* the same round trip for make_accessible.py alone
Aux_C7_RoundTripPy ==
    (prog = "py" /\ pc = "extracted" /\ passes = 1
        /\ AllUnwrapped(prev) /\ DistinctBaseNames(prev))
    => alt_map = ExpectedMap(prog, prev)

\* ========================================================= the preamble patch
\* the declarations \usepackage[...]{pkg} of text
Decls(text, pkg) ==
    {i \in 1..Len(text) : MatchOptArg(text, i, UP).ok
                          /\ MatchOptArg(text, i, UP).fname = <<pkg>>}

\* the bare declarations \usepackage{hyperref}
BareHyperref(text) == {i \in Decls(text, "hyperref") : MatchOptArg(text, i, UP).opts = <<>>}

HasClass(text) == FirstOptArg(text, 1, DCL).ok

HasAnchor(text) ==
    Decls(text, "graphicx") # {} \/ BareHyperref(text) # {} \/ HasClass(text)

Count(text, tok) == Cardinality({i \in 1..Len(text) : text[i] = tok})

\* a run of the patcher that started from the text in prev has ended
RanOnce == passes = 1 /\ pc = "idle"

\* C2: once a run has inserted the block, no later run inserts a second one:
\* after any number of runs the source holds at most one copy of the block's
\* hyperref metadata declaration (one pdfauthor) and at most one copy of its
\* font packages (one inputenc); no source holds either before the first run.
CE_C2_NoSecondBlock ==
    Count(src, "pdfauthor=") <= 1 /\ Count(src, "inputenc") <= 1

\* C3: a source that holds a graphicx declaration and, as its only hyperref
\* declaration, a bare one, is patched without an error; the result holds
\* exactly one hyperref declaration, and the font packages stand before the
\* graphicx declaration.
CE_C3_AnchorPriority ==
    /\ (passes = 0 /\ Decls(src, "graphicx") # {} /\ BareHyperref(src) # {}
            /\ Decls(src, "hyperref") = BareHyperref(src)
            /\ Cardinality(BareHyperref(src)) = 1)
       => raised = "none"
    /\ (RanOnce /\ Decls(prev, "graphicx") # {} /\ BareHyperref(prev) # {}
            /\ Decls(prev, "hyperref") = BareHyperref(prev)
            /\ Cardinality(BareHyperref(prev)) = 1
            /\ ~already_patched(prog, prev))
       => /\ Cardinality(Decls(src, "hyperref")) = 1
          /\ Decls(src, "graphicx") # {}
          /\ \E i \in 1..Len(src) : /\ src[i] = "lmodern"
                                    /\ \A g \in Decls(src, "graphicx") : i < g

\* C4: a source that is not patched yet and has an anchor is patched without
\* an error, and already_patched holds of the result.
CE_C4_PatchPostcondition ==
    /\ (passes = 0 /\ HasAnchor(src) /\ ~already_patched(prog, src)) => raised = "none"
    /\ (RanOnce /\ HasAnchor(prev) /\ ~already_patched(prog, prev))
       => already_patched(prog, src)

\* ========================================================= the HTML pipeline
\* the two-argument wrappers applied to a directive: a wrapper opening, a
\* directive, the closing brace of the first argument, and a second argument
\* that runs to the brace matching its opening one
WrapperAt(text, p) ==
    /\ TooltipIncl(text, p).ok
    /\ TooltipIncl(text, p).last + 3 <= Len(text)
    /\ text[TooltipIncl(text, p).last + 1] = RB
    /\ text[TooltipIncl(text, p).last + 2] = LB
    /\ \E c \in (TooltipIncl(text, p).last + 3)..Len(text) :
          Depth(text, TooltipIncl(text, p).last + 2, c) = 0

Wrappers(text) == {p \in 1..Len(text) : WrapperAt(text, p)}

\* the whole second argument of the wrapper at p, without its outer braces
SecondArg(text, p) ==
    LET open == TooltipIncl(text, p).last + 2
        close == Min({c \in (open + 1)..Len(text) : Depth(text, open, c) = 0})
    IN  SubSeq(text, open + 1, close - 1)

WrapperName(text, p) == PathName(TooltipIncl(text, p).fname)

\* base name |-> the trimmed second argument of its last wrapper
WholeArgMap(text) ==
    [b \in {WrapperName(text, p) : p \in Wrappers(text)} |->
        Strip(SecondArg(text, Max({p \in Wrappers(text) : WrapperName(text, p) = b})))]

\* C8: the map extract_alt_map returns sends the base name of every wrapped
\* directive to the wrapper's whole second argument, trimmed of blanks at its
\* ends and otherwise verbatim, nested brace groups included; of several
\* wrappers with one base name the last decides.
CE_C8_WholeSecondArgument ==
    pc = "pandoc" => alt_map = WholeArgMap(tex_file)

\* the tag has an attribute named alt
HasAltAttr(tag) == \E i \in 1..Len(tag) : tag[i] = "alt="

\* the tag as C9 describes it after post-processing
InjectedTag(tag, m) ==
    IF SrcMatches(tag) # {} /\ ~HasAltAttr(tag) /\ SrcName(tag) \in DOMAIN m
    THEN <<IMG, "alt=", Q>> \o m[SrcName(tag)] \o <<Q, SP>> \o Tail(tag)
    ELSE tag

RECURSIVE InjectedHtml(_, _, _, _, _)
InjectedHtml(html, m, ts, k, prv) ==
    IF k > Len(ts) THEN SubSeq(html, prv, Len(html))
    ELSE SubSeq(html, prv, ts[k].start - 1)
         \o InjectedTag(SubSeq(html, ts[k].start, ts[k].last), m)
         \o InjectedHtml(html, m, ts, k + 1, ts[k].last + 1)

\* C9: postprocess_html changes an image tag exactly when the tag has no alt
\* attribute and the base name of its file is a key of the map, and then
\* inserts the mapped alt as the first attribute; all else passes unchanged.
CE_C9_InjectIff ==
    (pc = "done" /\ status.pandoc = <<0>>)
    => html_file = InjectedHtml(rendered, alt_map, ImgTags(rendered, 1), 1, 1)

\* C10: in make_accessible.py, once coursetex has exited with a non-zero
\* status, pandoc is not run and no HTML file is written for the document.
CE_C10_AbortOnConverterFailure ==
    (prog = "py" /\ status.coursetex \notin {<<>>, <<0>>})
    => (status.pandoc = <<>> /\ html_file \in {Absent, Stale})

\* ------------------------------------------------------- guess_alt alone
\* the directory part of a file name, with its separators
GuessDirs == {<<>>, <<"misc_figs", SLASH>>, <<"usb_figs", SLASH>>, <<"figs", SLASH>>,
              <<"x", SLASH, "Serial_figs", SLASH>>}

GuessStems == {<<"TrayStack">>, <<"pathfinder">>, <<"rs232", "_", "serialbits">>,
               <<"c", "-", "building">>, <<"Fig", "_", "12345", "_", "plot">>,
               <<"12345">>, <<"2024", "-", "12345">>, <<"plot", "-", "a">>}

GuessSuffixes == {<<".png">>, <<".pdf">>}

GuessNames == {d \o st \o sf : d \in GuessDirs, st \in GuessStems, sf \in GuessSuffixes}

InitGuess ==
    /\ prog \in Progs
    /\ alt_arg \in GuessNames
    /\ alt_guess = <<>>
    /\ pc = "guess"
    /\ src = <<>>
    /\ prev = <<>>
    /\ passes = 0
    /\ alt_map = EmptyMap
    /\ raised = "none"
    /\ doc = "Interrupts"
    /\ new_text = <<>>
    /\ bak = Absent
    /\ make_backup = TRUE
    /\ on_path = {}
    /\ tex_file = Absent
    /\ tmp_file = Absent
    /\ html_file = Absent
    /\ status = NotRun
    /\ rendered = <<>>
    /\ NoBatch

\* one call of guess_alt
GuessAlt ==
    /\ pc = "guess"
    /\ alt_guess' = guess_alt(prog, alt_arg)
    /\ pc' = "guessed"
    /\ UNCHANGED <<alt_arg, mainvars, prog, src, prev, passes, alt_map, raised, doc,
                   new_text, bak, make_backup, htmlvars>>

NextGuess == GuessAlt

SpecGuess == InitGuess /\ [][NextGuess]_vars

\* ================================================================ the batch
\* every requested step ran to its end for the document at position i
StepsRan(i) ==
    /\ do_pdf => <<i, "pdf">> \in steps
    /\ do_html => <<i, "html">> \in steps

\* C11: main's loop never stops early: the run ends normally, a document that
\* does not exist is skipped, and every document that exists has had each
\* requested step run, whatever happened to the documents before it.
CE_C11_BatchIsolation ==
    /\ pc # "crashed"
    /\ pc = "ended" =>
          \A i \in 1..Len(files) :
              IF files[i].src = Absent THEN <<i, "skipped">> \in steps ELSE StepsRan(i)

\* the batch of make_accessible.py alone
Aux_C11_BatchPy == prog = "py" => CE_C11_BatchIsolation

\* =============================================================== the backup
\* C12: apply_pdf_accessibility goes on to back up and write only when the
\* text it computed differs from the text it read; with backups enabled the
\* backup holds the file's content when the write starts and, once the write
\* is done, the content the write replaced; without them no backup exists; a
\* run that found nothing to change leaves no backup.
Thm_C12_CopyBeforeMutate ==
    /\ pc \in {"backup", "write"} => new_text # src
    /\ (pc = "write" /\ make_backup) => bak = src
    /\ (pc = "idle" /\ src # prev) => bak = (IF make_backup THEN prev ELSE Absent)
    /\ ~make_backup => bak = Absent
    /\ (pc = "idle" /\ passes = 1 /\ src = prev) => bak = Absent

\* a run with backups enabled has rewritten the file
Wit_C12 ==
    /\ pc = "idle" /\ passes = 1 /\ make_backup
    /\ src # prev /\ bak = prev /\ src = new_text

\* ============================================================ the alt guess
known(p, name) == IF p = "tex" THEN known_tex(name) ELSE known_py(name)

\* the three-step policy of C13 for the script p
PolicyGuess(p, f) ==
    LET name == LowerAll(PathStem(f))
        parts == Split(f)
        readable == Strip(Readable(name))
    IN  IF known(p, name) # <<>> THEN known(p, name)
        ELSE IF Len(parts) >= 2
        THEN <<folder_guesses(parts[Len(parts) - 1]), " (">> \o PathName(f) \o <<")">>
        ELSE IF readable # <<>> THEN <<"Figure: ">> \o readable
        ELSE <<"Figure (">> \o PathName(f) \o <<")">>

\* C13: guess_alt returns the curated description when the lowercase stem is
\* in the curated table; otherwise, for a path with a directory component,
\* the directory-hint topic followed by the base name in parentheses;
\* otherwise "Figure: " and the readable stem, or "Figure (base name)" when
\* nothing of the stem remains.
CE_C13_GuessPolicy ==
    pc = "guessed" => alt_guess = PolicyGuess(prog, alt_arg)

\* step (1) alone: a curated stem gets its curated description, directory or not
Aux_C13_Curated ==
    (pc = "guessed" /\ known(prog, LowerAll(PathStem(alt_arg))) # <<>>)
    => alt_guess = known(prog, LowerAll(PathStem(alt_arg)))

\* ============================================================== the scanner
\* the nearest wrapper opening before start has its first argument closed
\* before start: the depth counted from the opening brace is back at zero
ClosedBefore(text, start) ==
    /\ LastTooltip(text, start) # 0
    /\ \E c \in (LastTooltip(text, start) + 2)..(start - 1) :
          Depth(text, LastTooltip(text, start) + 1, c) = 0

\* C14: a directive whose nearest preceding wrapper opening has its first
\* argument closed before the directive is wrapped by wrap_images, whatever
\* lies between the two: the wrapper's second argument, other text, or brace
\* groups that enclose the directive.
CE_C14_ClosedWrapper ==
    passes >= 1 =>
        LET mb == InclMatches(prev, 1)
            ma == InclMatches(src, 1)
        IN  \E w \in [1..Len(mb) -> BOOLEAN] :
                /\ \A k \in 1..Len(mb) : ClosedBefore(prev, mb[k].start) => w[k]
                /\ Aligned(prog, prev, src, mb, ma, w)

\* the closed-wrapper case in make_accessible.py alone
Aux_C14_ClosedWrapperPy == prog = "py" => CE_C14_ClosedWrapper

\* C17: every directive of wrap_images(S) has its base name as a key of
\* extract_alt_map(wrap_images(S)).
CE_C17_ScannerExtractorAgree ==
    (pc = "extracted" /\ passes = 1) => BaseNames(src) \subseteq DOMAIN alt_map

\* ======================================================= the pre-conversion
\* the closing brace of the second argument of the wrapper at p
SecondArgClose(text, p) ==
    Min({c \in (TooltipIncl(text, p).last + 3)..Len(text) :
            Depth(text, TooltipIncl(text, p).last + 2, c) = 0})

\* text from i on with every wrapper around a directive replaced by the
\* directive; j is the next wrapper command at or after i, 0 when none is left
RECURSIVE StripWrappers(_, _)
StripAt(text, i, j) ==
    IF j = 0 THEN SubSeq(text, i, Len(text))
    ELSE IF WrapperAt(text, j)
    THEN SubSeq(text, i, j - 1) \o SubSeq(text, j + 2, TooltipIncl(text, j).last)
         \o StripWrappers(text, SecondArgClose(text, j) + 1)
    ELSE SubSeq(text, i, j) \o StripWrappers(text, j + 1)

StripWrappers(text, i) == StripAt(text, i, FirstIdx(text, TT, i))

\* the line holds the optional-package conditional or loads the package
IsPackageLine(line) ==
    Has(line, "\\IfFileExists") \/ FindSeq(line, <<UP, LB, "pdfcomment", RB>>, 1) # 0

DropPackageLines(ls) ==
    Concat([i \in 1..Len(ls) |-> IF IsPackageLine(ls[i]) THEN <<>> ELSE ls[i]])

\* C15: the text preprocess_for_pandoc hands to pandoc is the source with
\* every wrapper around a directive replaced by exactly the directive, alt
\* text and braces gone, and without the lines of the tooltip package;
\* nothing else is changed, so the directives keep their count and order.
CE_C15_StripWrappers ==
    pc = "pandoc"
    => tmp_file = DropPackageLines(LinesKeepEnds(StripWrappers(tex_file, 1)))

\* the same for sources whose alt texts hold no brace
Aux_C15_NoNestedBrace ==
    (pc = "pandoc" /\ \A p \in Wrappers(tex_file) : ~Has(SecondArg(tex_file, p), LB))
    => tmp_file = DropPackageLines(LinesKeepEnds(StripWrappers(tex_file, 1)))

\* ================================================== the wrapper's definition
\* text holds the line that loads the tooltip package or defines the no-op
\* fallback for the wrapper command
DefinesTooltip(text) ==
    \/ FindSeq(text, <<UP, LB, "pdfcomment", RB>>, 1) # 0
    \/ FindSeq(text, <<"\\newcommand", LB, TT, RB>>, 1) # 0

\* text holds a wrapper that wrap_images put there
HasInsertedWrapper(p, text) ==
    \E i \in 1..(Len(text) - 2) :
        text[i] = TT /\ text[i + 1] = LB /\ text[i + 2] = IG /\ Has(text, ALT_MARKER(p))

\* C16: when a run over a source with a class declaration leaves a wrapper
\* inserted by wrap_images in the file, the file also holds the line that
\* loads the tooltip package or defines the fallback, also when the run
\* skipped the preamble patch because already_patched held.
CE_C16_WrapperHasDefinition ==
    (RanOnce /\ HasClass(prev) /\ HasInsertedWrapper(prog, src)) => DefinesTooltip(src)

\* the same for make_accessible.py alone
Aux_C16_DefinitionPy == prog = "py" => CE_C16_WrapperHasDefinition

=============================================================================
